---- MODULE Spec2Model ----
(***************************************************************************)
(* Model of crosswalk-app-tools:                                           *)
(*   AndroidProjectDeps (channel resolver: fetchVersions, find, download)  *)
(*   CommandParser      (argv validation: getCommand and its helpers)      *)
(* JavaScript strings that the code inspects character by character are    *)
(* sequences of one-character strings; JavaScript null is Null.            *)
(***************************************************************************)
EXTENDS Integers, Sequences, FiniteSets, TLC

VARIABLES obj, ctorArg, this_channel, pc, op, nOps, url, indexFile, tmpFiles,
          lastProgress, indicator, nUpdates, doneCount, doneMsg,
          cbCount, cbRes, cbErr, cbThrew, readCount, raised, path,
          termErr, dlName, dlDir, cwd, parent, findRet, findErr,
          argv, lastCall, ret, nErrors

depsVars == <<obj, ctorArg, this_channel, pc, op, nOps, url, indexFile, tmpFiles,
              lastProgress, indicator, nUpdates, doneCount, doneMsg,
              cbCount, cbRes, cbErr, cbThrew, readCount, raised, path,
              termErr, dlName, dlDir, cwd, parent, findRet, findErr>>

parserVars == <<argv, lastCall, ret, nErrors>>

vars == <<depsVars, parserVars>>

----------------------------------------------------------------------------
(* Bounds *)

MaxOps == 2
MaxProgress == 2
FracSteps == 2
MaxArgLen == 5

----------------------------------------------------------------------------
(* Values *)

Null == <<"<null>">>
False == <<"<false>">>
Undefined == "<undefined>"
NoFile == 0

BASE_URL == "https://download.01.org/crosswalk/releases/crosswalk/android/"

CHANNELS == <<"beta", "canary", "stable">>

ChannelNames == {"beta", "canary", "stable", "nightly", "Stable", ""}

(* Terminal-callback arguments of the Downloader: none, empty, message. *)
ErrorMsgs == {Undefined, "", "Network error"}

TempFailMsg == "Failed to download package index."

----------------------------------------------------------------------------
(* JavaScript helpers *)

RECURSIVE IndexFrom(_, _, _)
IndexFrom(arr, x, i) ==
  IF i > Len(arr) THEN -1
  ELSE IF arr[i] = x THEN i - 1
  ELSE IndexFrom(arr, x, i + 1)

IndexOf(arr, x) == IndexFrom(arr, x, 1)

Truthy(s) == s # Undefined /\ s # ""

Chars == <<"-", ".", "/", "0", "1", "2", "3", "4", "5", "6", "7", "8", "9",
           "_", "a", "c", "d", "e", "i", "k", "l", "m", "o", "p", "r", "s",
           "t", "w", "x", "z">>

CharCode(c) == CHOOSE i \in 1..Len(Chars) : Chars[i] = c

RECURSIVE StrLess(_, _)
StrLess(a, b) ==
  IF Len(b) = 0 THEN FALSE
  ELSE IF Len(a) = 0 THEN TRUE
  ELSE IF Head(a) = Head(b) THEN StrLess(Tail(a), Tail(b))
  ELSE CharCode(Head(a)) < CharCode(Head(b))

RECURSIVE SortNames(_)
SortNames(S) ==
  IF S = {} THEN <<>>
  ELSE LET m == CHOOSE x \in S : \A y \in S \ {x} : StrLess(x, y)
       IN <<m>> \o SortNames(S \ {m})

RECURSIVE GlobMatch(_, _)
GlobMatch(p, s) ==
  IF Len(p) = 0 THEN Len(s) = 0
  ELSE IF Head(p) = "*"
       THEN GlobMatch(Tail(p), s) \/ (Len(s) > 0 /\ GlobMatch(p, Tail(s)))
       ELSE Len(s) > 0 /\ Head(s) = Head(p) /\ GlobMatch(Tail(p), Tail(s))

----------------------------------------------------------------------------
(* File names *)

CrosswalkDash == <<"c", "r", "o", "s", "s", "w", "a", "l", "k", "-">>
DotZip == <<".", "z", "i", "p">>
ZipPattern == CrosswalkDash \o <<"*", ".", "*", ".", "*", ".", "*">> \o DotZip
DotDotSlash == <<".", ".", "/">>

V9 == <<"9", ".", "1", ".", "1", ".", "1">>
V10 == <<"1", "0", ".", "1", ".", "1", ".", "1">>
V3part == <<"1", ".", "2", ".", "3">>
Versions == {V9, V10, V3part}

ZipName(version) == CrosswalkDash \o version \o DotZip

ReadmeTxt == <<"r", "e", "a", "d", "m", "e", ".", "t", "x", "t">>

InitialCwd == {{}, {ReadmeTxt}, {ZipName(V10)}}
InitialParent == {{}, {ZipName(V9), ZipName(V10)}, {ZipName(V3part)}}

(* Results IndexParser.parse() can return for a downloaded listing. *)
ParseResults == {<<>>, <<V9, V10>>}

(* ShellJS.ls(glob): matching entries of the directory, in sorted order,   *)
(* prefixed by the directory part of the glob when there is one.           *)
Ls(prefix, dir) ==
  LET names == SortNames({n \in dir : GlobMatch(ZipPattern, n)})
  IN [i \in 1..Len(names) |-> prefix \o names[i]]

----------------------------------------------------------------------------
(* AndroidProjectDeps *)

InitDeps ==
  /\ obj = "none"
  /\ ctorArg = Undefined
  /\ this_channel = Undefined
  /\ pc = "idle"
  /\ op = "none"
  /\ nOps = 0
  /\ url = <<>>
  /\ indexFile = NoFile
  /\ tmpFiles = {}
  /\ lastProgress = 0
  /\ indicator = -1
  /\ nUpdates = 0
  /\ doneCount = 0
  /\ doneMsg = Undefined
  /\ cbCount = 0
  /\ cbRes = Null
  /\ cbErr = Undefined
  /\ cbThrew = FALSE
  /\ readCount = 0
  /\ raised = FALSE
  /\ path = "none"
  /\ termErr = Undefined
  /\ dlName = <<>>
  /\ dlDir = "none"
  /\ findRet = Null
  /\ findErr = FALSE
  /\ cwd \in InitialCwd
  /\ parent \in InitialParent

(* Mutant: the index is tested for truthiness instead of against -1. *)
AndroidProjectDeps_IndexZero(channel) ==
  /\ obj = "none"
  /\ ctorArg' = channel
  /\ IF IndexOf(CHANNELS, channel) = 0
     THEN /\ obj' = "InvalidChannelError"
          /\ UNCHANGED this_channel
     ELSE /\ obj' = "constructed"
          /\ this_channel' = channel
  /\ UNCHANGED <<pc, op, nOps, url, indexFile, tmpFiles, lastProgress,
                 indicator, nUpdates, doneCount, doneMsg, cbCount, cbRes,
                 cbErr, cbThrew, readCount, raised, path, termErr, dlName,
                 dlDir, cwd, parent, findRet, findErr>>
  /\ UNCHANGED parserVars

AndroidProjectDeps(channel) ==
  /\ obj = "none"
  /\ ctorArg' = channel
  /\ IF IndexOf(CHANNELS, channel) = -1
     THEN /\ obj' = "InvalidChannelError"
          /\ UNCHANGED this_channel
     ELSE /\ obj' = "constructed"
          /\ this_channel' = channel
  /\ UNCHANGED <<pc, op, nOps, url, indexFile, tmpFiles, lastProgress,
                 indicator, nUpdates, doneCount, doneMsg, cbCount, cbRes,
                 cbErr, cbThrew, readCount, raised, path, termErr, dlName,
                 dlDir, cwd, parent, findRet, findErr>>
  /\ UNCHANGED parserVars

CanStart == obj = "constructed" /\ pc \in {"idle", "finished"} /\ nOps < MaxOps

ResetOp ==
  /\ nOps' = nOps + 1
  /\ lastProgress' = 0
  /\ indicator' = -1
  /\ nUpdates' = 0
  /\ doneCount' = 0
  /\ doneMsg' = Undefined
  /\ readCount' = 0
  /\ termErr' = Undefined

Rm(files, f) == files \ {f}

(* fetchVersions up to the point where it returns to its caller. *)
fetchVersions(created, cbThrows) ==
  /\ CanStart
  /\ ResetOp
  /\ op' = "fetchVersions"
  /\ url' = <<BASE_URL, this_channel, "/">>
  /\ indexFile' = IF created THEN nOps + 1 ELSE NoFile
  /\ IF indexFile' # NoFile
     THEN /\ tmpFiles' = tmpFiles \cup {indexFile'}
          /\ pc' = "transfer"
          /\ cbCount' = 0
          /\ cbRes' = Null
          /\ cbErr' = Undefined
          /\ cbThrew' = FALSE
          /\ raised' = FALSE
          /\ path' = "none"
     ELSE /\ cbCount' = 1
          /\ cbRes' = Null
          /\ cbErr' = TempFailMsg
          /\ cbThrew' = cbThrows
          /\ raised' = cbThrows
          /\ tmpFiles' = IF cbThrows THEN tmpFiles ELSE Rm(tmpFiles, indexFile')
          /\ pc' = "finished"
          /\ path' = "no_tempfile"
  /\ UNCHANGED <<obj, ctorArg, this_channel, dlName, dlDir, cwd, parent, findRet,
                 findErr>>
  /\ UNCHANGED parserVars

(* downloader.progress -> indicator.update(progress) *)
progress(p) ==
  /\ pc = "transfer"
  /\ nUpdates < MaxProgress
  /\ p >= lastProgress
  /\ lastProgress' = p
  /\ indicator' = p
  /\ nUpdates' = nUpdates + 1
  /\ UNCHANGED <<obj, ctorArg, this_channel, pc, op, nOps, url, indexFile, tmpFiles,
                 doneCount, doneMsg, cbCount, cbRes, cbErr, cbThrew,
                 readCount, raised, path, termErr, dlName, dlDir, cwd,
                 parent, findRet, findErr>>
  /\ UNCHANGED parserVars

(* Mutant: the index file is read and parsed before errormsg is tested. *)
FetchGetCb_ReadFirst(errormsg, readOk, parsed, cbThrows) ==
  IF ~readOk
  THEN [done |-> 1, msg |-> "", cb |-> 0, res |-> Null, err |-> Undefined,
        read |-> 1, threw |-> FALSE, raised |-> TRUE, rm |-> FALSE,
        path |-> "read_raised"]
  ELSE IF parsed = Null
  THEN [done |-> 1, msg |-> "", cb |-> 0, res |-> Null, err |-> Undefined,
        read |-> 1, threw |-> FALSE, raised |-> TRUE, rm |-> FALSE,
        path |-> "parse_raised"]
  ELSE IF Truthy(errormsg)
  THEN [done |-> 1, msg |-> "", cb |-> 1, res |-> Null, err |-> errormsg,
        read |-> 1, threw |-> cbThrows, raised |-> cbThrows,
        rm |-> ~cbThrows, path |-> "transfer_failure"]
  ELSE [done |-> 1, msg |-> "", cb |-> 1, res |-> parsed, err |-> Undefined,
        read |-> 1, threw |-> cbThrows, raised |-> cbThrows,
        rm |-> ~cbThrows, path |-> "success"]

(* Body of the function passed to downloader.get in fetchVersions.         *)
(* parsed is Null when IndexParser raises.                                 *)
FetchGetCb(errormsg, readOk, parsed, cbThrows) ==
  IF Truthy(errormsg)
  THEN [done |-> 1, msg |-> "", cb |-> 1, res |-> Null, err |-> errormsg, read |-> 0,
        threw |-> cbThrows, raised |-> cbThrows, rm |-> ~cbThrows,
        path |-> "transfer_failure"]
  ELSE IF ~readOk
  THEN [done |-> 1, msg |-> "", cb |-> 0, res |-> Null, err |-> Undefined, read |-> 1,
        threw |-> FALSE, raised |-> TRUE, rm |-> FALSE,
        path |-> "read_raised"]
  ELSE IF parsed = Null
  THEN [done |-> 1, msg |-> "", cb |-> 0, res |-> Null, err |-> Undefined, read |-> 1,
        threw |-> FALSE, raised |-> TRUE, rm |-> FALSE,
        path |-> "parse_raised"]
  ELSE [done |-> 1, msg |-> "", cb |-> 1, res |-> parsed, err |-> Undefined, read |-> 1,
        threw |-> cbThrows, raised |-> cbThrows, rm |-> ~cbThrows,
        path |-> "success"]

fetchVersionsGet(errormsg, readOk, parsed, cbThrows) ==
  /\ pc = "transfer"
  /\ op = "fetchVersions"
  /\ LET r == FetchGetCb(errormsg, readOk, parsed, cbThrows)
     IN /\ doneCount' = doneCount + r.done
        /\ doneMsg' = r.msg
        /\ cbCount' = cbCount + r.cb
        /\ cbRes' = r.res
        /\ cbErr' = r.err
        /\ cbThrew' = r.threw
        /\ readCount' = readCount + r.read
        /\ raised' = r.raised
        /\ path' = r.path
        /\ tmpFiles' = IF r.rm THEN Rm(tmpFiles, indexFile) ELSE tmpFiles
  /\ termErr' = errormsg
  /\ pc' = "finished"
  /\ UNCHANGED <<obj, ctorArg, this_channel, op, nOps, url, indexFile, lastProgress,
                 indicator, nUpdates, dlName, dlDir, cwd, parent, findRet,
                 findErr>>
  /\ UNCHANGED parserVars

(* Mutant: the first listed name is taken instead of the last. *)
FindResult_First(zipsCwd, zipsParent) ==
  LET zips == IF Len(zipsCwd) = 0 THEN zipsParent ELSE zipsCwd
  IN IF Len(zips) = 0 THEN False ELSE zips[1]

(* find(): the value returned for the two listings. *)
FindResult(zipsCwd, zipsParent) ==
  LET zips == IF Len(zipsCwd) = 0 THEN zipsParent ELSE zipsCwd
  IN IF Len(zips) = 0 THEN False ELSE zips[Len(zips)]

find ==
  /\ CanStart
  /\ ResetOp
  /\ op' = "find"
  /\ pc' = "finished"
  /\ findRet' = FindResult(Ls(<<>>, cwd), Ls(DotDotSlash, parent))
  /\ findErr' = (findRet' = False)
  /\ path' = "none"
  /\ UNCHANGED <<obj, ctorArg, this_channel, url, indexFile, tmpFiles, cbCount, cbRes,
                 cbErr, cbThrew, raised, dlName, dlDir, cwd, parent>>
  /\ UNCHANGED parserVars

(* download up to the point where it returns to its caller. *)
download(version, dir) ==
  /\ CanStart
  /\ ResetOp
  /\ op' = "download"
  /\ dlName' = ZipName(version)
  /\ dlDir' = dir
  /\ url' = <<BASE_URL, this_channel, "/", version, "/", dlName'>>
  /\ pc' = "transfer"
  /\ cbCount' = 0
  /\ cbRes' = Null
  /\ cbErr' = Undefined
  /\ cbThrew' = FALSE
  /\ raised' = FALSE
  /\ path' = "none"
  /\ UNCHANGED <<obj, ctorArg, this_channel, indexFile, tmpFiles, cwd, parent, findRet,
                 findErr>>
  /\ UNCHANGED parserVars

(* Mutant: indicator.done is called on the success branch only. *)
DownloadGetCb_DoneOnSuccess(errormsg, filename, cbThrows) ==
  IF Truthy(errormsg)
  THEN [done |-> 0, msg |-> Undefined, cb |-> 1, res |-> Null,
        err |-> errormsg, threw |-> cbThrows, raised |-> cbThrows,
        path |-> "transfer_failure"]
  ELSE [done |-> 1, msg |-> "", cb |-> 1, res |-> filename, err |-> Undefined,
        threw |-> cbThrows, raised |-> cbThrows, path |-> "success"]

(* Mutant: the callback is called after the branches as well. *)
DownloadGetCb_CallbackTwice(errormsg, filename, cbThrows) ==
  IF Truthy(errormsg)
  THEN [done |-> 1, msg |-> "", cb |-> 1, res |-> Null, err |-> errormsg,
        threw |-> cbThrows, raised |-> cbThrows, path |-> "transfer_failure"]
  ELSE [done |-> 1, msg |-> "", cb |-> IF cbThrows THEN 1 ELSE 2,
        res |-> filename, err |-> Undefined,
        threw |-> cbThrows, raised |-> cbThrows, path |-> "success"]

(* Body of the function passed to downloader.get in download. *)
DownloadGetCb(errormsg, filename, cbThrows) ==
  IF Truthy(errormsg)
  THEN [done |-> 1, msg |-> "", cb |-> 1, res |-> Null, err |-> errormsg,
        threw |-> cbThrows, raised |-> cbThrows, path |-> "transfer_failure"]
  ELSE [done |-> 1, msg |-> "", cb |-> 1, res |-> filename, err |-> Undefined,
        threw |-> cbThrows, raised |-> cbThrows, path |-> "success"]

(* The Downloader leaves the complete file on success and possibly a       *)
(* partial one on failure (kept).                                          *)
downloadGet(errormsg, kept, cbThrows) ==
  /\ pc = "transfer"
  /\ op = "download"
  /\ LET r == DownloadGetCb(errormsg, dlName, cbThrows)
     IN /\ doneCount' = doneCount + r.done
        /\ doneMsg' = r.msg
        /\ cbCount' = cbCount + r.cb
        /\ cbRes' = r.res
        /\ cbErr' = r.err
        /\ cbThrew' = r.threw
        /\ raised' = r.raised
        /\ path' = r.path
  /\ termErr' = errormsg
  /\ pc' = "finished"
  /\ LET written == (errormsg = Undefined) \/ kept
     IN /\ cwd' = IF written /\ dlDir = "." THEN cwd \cup {dlName} ELSE cwd
        /\ parent' = IF written /\ dlDir = ".." THEN parent \cup {dlName}
                     ELSE parent
  /\ UNCHANGED <<obj, ctorArg, this_channel, op, nOps, url, indexFile, tmpFiles,
                 lastProgress, indicator, nUpdates, readCount, dlName, dlDir,
                 findRet, findErr>>
  /\ UNCHANGED parserVars

----------------------------------------------------------------------------
(* CommandParser *)

tCreate == <<"c", "r", "e", "a", "t", "e">>
tUpdate == <<"u", "p", "d", "a", "t", "e">>
tRefresh == <<"r", "e", "f", "r", "e", "s", "h">>
tBuild == <<"b", "u", "i", "l", "d">>
tHelp == <<"h", "e", "l", "p">>
tVersion == <<"v", "e", "r", "s", "i", "o", "n">>
tDebug == <<"d", "e", "b", "u", "g">>
tRelease == <<"r", "e", "l", "e", "a", "s", "e">>

VersionTokens == <<tVersion, <<"-", "v">>, <<"-", "v", "e", "r", "s", "i", "o", "n">>,
                   <<"-", "-", "v", "e", "r", "s", "i", "o", "n">>>>
HelpTokens == <<tHelp, <<"-", "h">>, <<"-", "h", "e", "l", "p">>,
                <<"-", "-", "h", "e", "l", "p">>>>
CommandTokens == <<tCreate, tUpdate, tRefresh, tBuild>>
BuildTypes == <<tDebug, tRelease>>

Digits == {"0", "1", "2", "3", "4", "5", "6", "7", "8", "9"}
Lower == {"a", "b", "c", "d", "e", "f", "g", "h", "i", "j", "k", "l", "m",
          "n", "o", "p", "q", "r", "s", "t", "u", "v", "w", "x", "y", "z"}
Upper == {"A", "B", "C", "D", "E", "F", "G", "H", "I", "J", "K", "L", "M",
          "N", "O", "P", "Q", "R", "S", "T", "U", "V", "W", "X", "Y", "Z"}

(* [A-Za-z0-9_\.] and [0-9\.] *)
PackageClass == Upper \cup Lower \cup Digits \cup {"_", "."}
VersionClass == Digits \cup {"."}

(* s.match("[class]*")[0]: the unanchored pattern matches at index 0, as   *)
(* far as the characters stay in the class.                                *)
RECURSIVE MatchStar(_, _)
MatchStar(s, class) ==
  IF Len(s) = 0 \/ Head(s) \notin class THEN <<>>
  ELSE <<Head(s)>> \o MatchStar(Tail(s), class)

(* s.split(sep) for a one-character separator *)
RECURSIVE SplitFrom(_, _, _)
SplitFrom(s, sep, cur) ==
  IF Len(s) = 0 THEN <<cur>>
  ELSE IF Head(s) = sep THEN <<cur>> \o SplitFrom(Tail(s), sep, <<>>)
  ELSE SplitFrom(Tail(s), sep, Append(cur, Head(s)))

Split(s, sep) == SplitFrom(s, sep, <<>>)

(* s[i]: undefined outside the string *)
CharAt(s, i) == IF i >= 0 /\ i < Len(s) THEN s[i + 1] ELSE Undefined

(* a[i] of the JavaScript array a *)
Arg(a, i) == a[i + 1]

peekCommand(a) ==
  IF Len(a) < 3 THEN Null
  ELSE LET command == Arg(a, 2)
       IN IF IndexOf(VersionTokens, command) > -1 THEN tVersion
          ELSE IF IndexOf(HelpTokens, command) > -1 THEN tHelp
          ELSE IF IndexOf(CommandTokens, command) > -1 THEN command
          ELSE Null

(* Mutant: two elements are enough. *)
createGetPackage_TwoParts(a) ==
  IF Len(a) < 4 THEN [val |-> Null, errs |-> 0]
  ELSE LET pkg == Arg(a, 3)
       IN IF MatchStar(pkg, PackageClass) # pkg
          THEN [val |-> Null, errs |-> 1]
          ELSE IF CharAt(pkg, 0) = "." \/ CharAt(pkg, Len(pkg) - 1) = "."
          THEN [val |-> Null, errs |-> 2]
          ELSE IF Len(Split(pkg, ".")) < 2
          THEN [val |-> Null, errs |-> 2]
          ELSE [val |-> pkg, errs |-> 0]

(* The validators return the value and the number of Console.error lines. *)
createGetPackage(a) ==
  IF Len(a) < 4 THEN [val |-> Null, errs |-> 0]
  ELSE LET pkg == Arg(a, 3)
       IN IF MatchStar(pkg, PackageClass) # pkg
          THEN [val |-> Null, errs |-> 1]
          ELSE IF CharAt(pkg, 0) = "." \/ CharAt(pkg, Len(pkg) - 1) = "."
          THEN [val |-> Null, errs |-> 2]
          ELSE IF Len(Split(pkg, ".")) < 3
          THEN [val |-> Null, errs |-> 2]
          ELSE [val |-> pkg, errs |-> 0]

updateGetVersion(a) ==
  IF Len(a) < 4 THEN [val |-> Null, errs |-> 0]
  ELSE LET version == Arg(a, 3)
       IN IF MatchStar(version, VersionClass) # version
          THEN [val |-> Null, errs |-> 1]
          ELSE IF Len(Split(version, ".")) # 4
          THEN [val |-> Null, errs |-> 1]
          ELSE [val |-> version, errs |-> 0]

(* Mutant: no default when the type is omitted. *)
buildGetType_NoDefault(a) ==
  IF Len(a) < 4 THEN [val |-> Null, errs |-> 0]
  ELSE LET type == Arg(a, 3)
       IN IF IndexOf(BuildTypes, type) > -1
          THEN [val |-> type, errs |-> 0]
          ELSE [val |-> Null, errs |-> 0]

buildGetType(a) ==
  IF Len(a) < 3 THEN [val |-> Null, errs |-> 0]
  ELSE IF Len(a) < 4 THEN [val |-> tDebug, errs |-> 0]
  ELSE LET type == Arg(a, 3)
       IN IF IndexOf(BuildTypes, type) > -1
          THEN [val |-> type, errs |-> 0]
          ELSE [val |-> Null, errs |-> 0]

(* Mutant: the default branch returns cmd. *)
getCommand_DefaultCmd(a) ==
  LET cmd == peekCommand(a)
  IN IF cmd = tCreate
     THEN LET pkg == createGetPackage(a)
          IN [val |-> IF pkg.val # Null THEN cmd ELSE Null, errs |-> pkg.errs]
     ELSE IF cmd = tUpdate
     THEN LET version == updateGetVersion(a)
          IN [val |-> IF version.val # Null THEN cmd ELSE Null,
              errs |-> version.errs]
     ELSE IF cmd = tBuild
     THEN LET type == buildGetType(a)
          IN [val |-> IF type.val # Null THEN cmd ELSE Null,
              errs |-> type.errs]
     ELSE [val |-> cmd, errs |-> 0]

getCommand(a) ==
  LET cmd == peekCommand(a)
  IN IF cmd = tCreate
     THEN LET pkg == createGetPackage(a)
          IN [val |-> IF pkg.val # Null THEN cmd ELSE Null, errs |-> pkg.errs]
     ELSE IF cmd = tUpdate
     THEN LET version == updateGetVersion(a)
          IN [val |-> IF version.val # Null THEN cmd ELSE Null,
              errs |-> version.errs]
     ELSE IF cmd = tBuild
     THEN LET type == buildGetType(a)
          IN [val |-> IF type.val # Null THEN cmd ELSE Null,
              errs |-> type.errs]
     ELSE IF cmd = tHelp \/ cmd = tVersion
     THEN [val |-> cmd, errs |-> 0]
     ELSE [val |-> Null, errs |-> 0]

(* Inputs of the parser *)
Alphabet == {"1", ".", "a", "-"}

Strings(n) == UNION {[1..k -> Alphabet] : k \in 0..n}

SampleArgs == {tDebug, tRelease, tCreate,
               <<"c", "o", "m", ".", "e", "x", "a", "m", "p", "l", "e", ".", "a", "p", "p">>,
               <<"c", "o", "m", ".", "e", "x", "a", "m", "p", "l", "e">>,
               <<"a", "_", "b", ".", "C", ".", "d", "9">>,
               <<"1", "4", ".", "4", "3", ".", "3", "4", "3", ".", "2", "5">>,
               <<"1", ".", "2", ".", "3">>,
               <<"1", ".", "1", ".", "1", ".", "1">>,
               <<"1", ".", ".", "2", ".", "3">>}

ArgStrings == Strings(MaxArgLen) \cup SampleArgs

FirstTokens == {VersionTokens[i] : i \in 1..4} \cup {HelpTokens[i] : i \in 1..4}
               \cup {CommandTokens[i] : i \in 1..4}
               \cup {<<>>, tDebug, <<"-", "x">>, <<"C", "r", "e", "a", "t", "e">>}

Node == <<"n", "o", "d", "e">>
Script == <<"c", "r", "o", "s", "s", "w", "a", "l", "k", "-", "a", "p", "p">>

ArgvSet == {<<>>, <<Node>>, <<Node, Script>>}
           \cup {<<Node, Script, c>> : c \in FirstTokens}
           \cup {<<Node, Script, c, x>> : c \in FirstTokens, x \in ArgStrings}

Call(name, r) ==
  /\ lastCall' = name
  /\ ret' = r.val
  /\ nErrors' = r.errs
  /\ UNCHANGED argv
  /\ UNCHANGED depsVars

CallGetCommand == Call("getCommand", getCommand(argv))

CallPeekCommand == Call("peekCommand", [val |-> peekCommand(argv), errs |-> 0])

CallCreateGetPackage == Call("createGetPackage", createGetPackage(argv))

CallUpdateGetVersion == Call("updateGetVersion", updateGetVersion(argv))

CallBuildGetType == Call("buildGetType", buildGetType(argv))

InitParser ==
  /\ argv \in ArgvSet
  /\ lastCall = "none"
  /\ ret = Null
  /\ nErrors = 0
  /\ InitDeps
  /\ cwd = {}
  /\ parent = {}

NextParser ==
  \/ CallGetCommand
  \/ CallPeekCommand
  \/ CallCreateGetPackage
  \/ CallUpdateGetVersion
  \/ CallBuildGetType

SpecParser == InitParser /\ [][NextParser]_vars

----------------------------------------------------------------------------

Init ==
  /\ InitDeps
  /\ argv = <<>>
  /\ lastCall = "none"
  /\ ret = Null
  /\ nErrors = 0

Next ==
  \/ \E channel \in ChannelNames : AndroidProjectDeps(channel)
  \/ \E created \in BOOLEAN, cbThrows \in BOOLEAN :
       fetchVersions(created, cbThrows)
  \/ \E p \in 0..FracSteps : progress(p)
  \/ \E errormsg \in ErrorMsgs, readOk \in BOOLEAN,
        parsed \in ParseResults \cup {Null}, cbThrows \in BOOLEAN :
       fetchVersionsGet(errormsg, readOk, parsed, cbThrows)
  \/ find
  \/ \E version \in Versions, dir \in {".", ".."} : download(version, dir)
  \/ \E errormsg \in ErrorMsgs, kept \in BOOLEAN, cbThrows \in BOOLEAN :
       downloadGet(errormsg, kept, cbThrows)

Spec == Init /\ [][Next]_vars

----------------------------------------------------------------------------
(* Properties of AndroidProjectDeps, checked under Spec *)

Finished(o) == pc = "finished" /\ op = o

FailureReported == termErr # Undefined /\ termErr # ""

(* C1: once a fetchVersions call has finished, on whatever exit path, the  *)
(* temporary index file that call created no longer exists.                *)
C1_TempFileRemoved ==
  Finished("fetchVersions") => indexFile \notin tmpFiles

(* C2: when the transfer's terminal callback reports a failure message,    *)
(* fetchVersions and download hand the caller's callback a null result and *)
(* that same non-empty message, raise nothing themselves, and              *)
(* fetchVersions has not read or parsed the index file.                    *)
C2_FailureDelivered ==
  (pc = "finished" /\ op \in {"fetchVersions", "download"} /\ FailureReported)
    => /\ cbCount = 1
       /\ cbRes = Null
       /\ cbErr = termErr
       /\ cbErr # ""
       /\ readCount = 0
       /\ (~cbThrew => ~raised)

C2_Witness ==
  /\ Finished("fetchVersions")
  /\ termErr = "Network error"
  /\ cbErr = "Network error"
  /\ ~raised

(* C3 as claimed: on the failure path of download, the progress            *)
(* indicator's done() terminal rendering is not performed.                 *)
C3_NoDoneOnFailure ==
  (Finished("download") /\ FailureReported) => doneCount = 0

(* C3 as amended: on the failure path of download, done() is performed     *)
(* exactly once, with the empty final message, and the callback receives   *)
(* no filename.                                                            *)
C3_DoneOnceEmptyOnFailure ==
  (Finished("download") /\ FailureReported)
    => doneCount = 1 /\ doneMsg = "" /\ cbRes = Null

C3_Witness ==
  /\ Finished("download")
  /\ termErr = "Network error"
  /\ doneCount = 1
  /\ cbErr = "Network error"

(* C4: the caller's callback of fetchVersions and download is invoked      *)
(* exactly once on the success path, the transfer-failure path and the     *)
(* path without temporary file: never twice, and not before the transfer's *)
(* terminal callback.                                                      *)
C4_CallbackExactlyOnce ==
  /\ cbCount <= 1
  /\ (pc = "transfer" => cbCount = 0)
  /\ (pc = "finished" /\ op \in {"fetchVersions", "download"}
      /\ path \in {"success", "transfer_failure", "no_tempfile"})
       => cbCount = 1

C4_Witness ==
  /\ Finished("download")
  /\ path = "success"
  /\ cbCount = 1
  /\ cbRes = dlName

ValidChannels == {"beta", "canary", "stable"}

(* C5: construction fails with InvalidChannelError exactly for the channel *)
(* names outside {beta, canary, stable} and otherwise binds the given      *)
(* channel; no later operation changes the bound channel.                  *)
C5_ChannelValidatedAndFixed ==
  /\ [](obj # "none" =>
          /\ (obj = "InvalidChannelError") = (ctorArg \notin ValidChannels)
          /\ (obj = "constructed") = (ctorArg \in ValidChannels)
          /\ (obj = "constructed" => this_channel = ctorArg))
  /\ [][obj = "constructed" => this_channel' = this_channel]_vars

C5_Witness ==
  /\ obj = "constructed"
  /\ this_channel = "canary"
  /\ nOps = MaxOps
  /\ pc = "finished"

RECURSIVE CountOf(_, _)
CountOf(s, c) ==
  IF Len(s) = 0 THEN 0
  ELSE (IF Head(s) = c THEN 1 ELSE 0) + CountOf(Tail(s), c)

(* crosswalk-<a>.<b>.<c>.<d>.zip *)
IsArchiveName(n) ==
  /\ Len(n) >= Len(CrosswalkDash) + Len(DotZip)
  /\ SubSeq(n, 1, Len(CrosswalkDash)) = CrosswalkDash
  /\ SubSeq(n, Len(n) - Len(DotZip) + 1, Len(n)) = DotZip
  /\ CountOf(SubSeq(n, Len(CrosswalkDash) + 1, Len(n) - Len(DotZip)), ".") >= 3

Candidates(dir) == {n \in dir : IsArchiveName(n)}

Greatest(S) == CHOOSE x \in S : \A y \in S \ {x} : StrLess(y, x)

(* C6: find() returns the lexicographically greatest candidate of the      *)
(* current directory when there is one, whatever the parent holds;         *)
(* otherwise the greatest candidate of the parent directory; otherwise     *)
(* false.                                                                  *)
C6_FindLastCandidate ==
  Finished("find") =>
    findRet = IF Candidates(cwd) # {} THEN Greatest(Candidates(cwd))
              ELSE IF Candidates(parent) # {}
              THEN DotDotSlash \o Greatest(Candidates(parent))
              ELSE False

C6_Witness ==
  /\ Finished("find")
  /\ Cardinality(Candidates(cwd)) >= 2
  /\ Cardinality(Candidates(parent)) >= 2
  /\ findRet = ZipName(V9)

----------------------------------------------------------------------------
(* Properties of CommandParser, checked under SpecParser *)

AllIn(s, class) == \A i \in 1..Len(s) : s[i] \in class

FourNumericSegments(s) ==
  LET parts == Split(s, ".")
  IN /\ Len(parts) = 4
     /\ \A i \in 1..4 : Len(parts[i]) > 0 /\ AllIn(parts[i], Digits)

(* C7: for update, the version argument is accepted (updateGetVersion      *)
(* returns it, getCommand returns "update") if and only if it is exactly   *)
(* four dot-separated non-empty runs of digits; otherwise both return      *)
(* null.                                                                   *)
C7_UpdateFourNumericSegments ==
  /\ (lastCall = "updateGetVersion" /\ Len(argv) >= 4)
       => ret = IF FourNumericSegments(Arg(argv, 3)) THEN Arg(argv, 3)
                ELSE Null
  /\ (lastCall = "getCommand" /\ Len(argv) >= 4 /\ Arg(argv, 2) = tUpdate)
       => ret = IF FourNumericSegments(Arg(argv, 3)) THEN tUpdate ELSE Null

ValidPackage(s) ==
  /\ AllIn(s, PackageClass)
  /\ Len(s) > 0
  /\ s[1] # "."
  /\ s[Len(s)] # "."
  /\ CountOf(s, ".") >= 2

(* C8: for create, the package-id is accepted (createGetPackage returns    *)
(* it, getCommand returns "create") if and only if all its characters are  *)
(* in [A-Za-z0-9_.], it neither starts nor ends with '.', and it has three *)
(* or more dot-separated segments; otherwise both return null.             *)
C8_CreatePackageValidated ==
  /\ (lastCall = "createGetPackage" /\ Len(argv) >= 4)
       => ret = IF ValidPackage(Arg(argv, 3)) THEN Arg(argv, 3) ELSE Null
  /\ (lastCall = "getCommand" /\ Len(argv) >= 4 /\ Arg(argv, 2) = tCreate)
       => ret = IF ValidPackage(Arg(argv, 3)) THEN tCreate ELSE Null

C8_Witness ==
  /\ lastCall = "getCommand"
  /\ argv = <<Node, Script, tCreate, <<"c", "o", "m", ".", "e", "x", "a", "m", "p", "l", "e", ".", "a", "p", "p">>>>
  /\ ret = tCreate

(* C9: for build, the type is "debug" when no further argument is given,   *)
(* the given token when it is "debug" or "release", and null for any other *)
(* token, in which case getCommand returns null instead of "build".        *)
C9_BuildTypeDefaultsToDebug ==
  /\ (lastCall = "buildGetType" /\ Len(argv) = 3) => ret = tDebug
  /\ (lastCall = "buildGetType" /\ Len(argv) >= 4)
       => ret = IF Arg(argv, 3) \in {tDebug, tRelease} THEN Arg(argv, 3)
                ELSE Null
  /\ (lastCall = "getCommand" /\ Len(argv) = 3 /\ Arg(argv, 2) = tBuild)
       => ret = tBuild
  /\ (lastCall = "getCommand" /\ Len(argv) >= 4 /\ Arg(argv, 2) = tBuild)
       => ret = IF Arg(argv, 3) \in {tDebug, tRelease} THEN tBuild ELSE Null

C9_Witness ==
  /\ lastCall = "buildGetType"
  /\ argv = <<Node, Script, tBuild>>
  /\ ret = tDebug

HelpSpellings == {tHelp, <<"-", "h">>, <<"-", "h", "e", "l", "p">>,
                  <<"-", "-", "h", "e", "l", "p">>}
VersionSpellings == {tVersion, <<"-", "v">>, <<"-", "v", "e", "r", "s", "i", "o", "n">>,
                     <<"-", "-", "v", "e", "r", "s", "i", "o", "n">>}

(* C10: getCommand returns one of create, update, build, help, version or  *)
(* null; help and version for each of their spellings whatever follows;    *)
(* null for every other first token, refresh included although peekCommand *)
(* returns it; and a non-null getCommand equals peekCommand.               *)
C10_GetCommandRange ==
  /\ lastCall = "getCommand" =>
       /\ ret \in {tCreate, tUpdate, tBuild, tHelp, tVersion, Null}
       /\ (ret # Null => ret = peekCommand(argv))
       /\ Len(argv) < 3 => ret = Null
       /\ Len(argv) >= 3 =>
            /\ (Arg(argv, 2) \in HelpSpellings => ret = tHelp)
            /\ (Arg(argv, 2) \in VersionSpellings => ret = tVersion)
            /\ (Arg(argv, 2) \notin HelpSpellings \cup VersionSpellings
                                   \cup {tCreate, tUpdate, tBuild}
                  => ret = Null)
  /\ (lastCall = "peekCommand" /\ Len(argv) >= 3 /\ Arg(argv, 2) = tRefresh)
       => ret = tRefresh

C10_Witness ==
  /\ lastCall = "getCommand"
  /\ Len(argv) >= 3
  /\ Arg(argv, 2) = tRefresh
  /\ ret = Null

====
